---- MODULE Spec2Model ----
(***************************************************************************)
(* Floor-area detector of sap2000_model (AreaMethods / FrameMethods).      *)
(*                                                                         *)
(* Coordinates and the tolerance are integers of one length unit, so that  *)
(* round(v / tolerance) * tolerance is exact.  A vertex key is the tuple   *)
(* <<x, y, z>> of quantized coordinates, a vertex index is a natural       *)
(* number counted from 0 as in the source, and a frame name is a natural   *)
(* number (its position in the host's frame list).                         *)
(***************************************************************************)
EXTENDS Integers, Sequences, FiniteSets, TLC

VARIABLES
    frames,              \* host: the frames FrameObj.GetNameList() lists, in order
    namelist_ret,        \* host: the return code of FrameObj.GetNameList()
    host_faults,         \* host: number of requests it has refused or failed so far
    host_areas,          \* host: area name -> the coordinate loop it was created with
    axis_requests,       \* host: the SetLocalAxes(name, angle) calls received, in order
    create_requests,     \* host: the AddByCoord coordinate loops received, in order
    floor_z,             \* add_floor_areas argument
    tolerance,           \* add_floor_areas argument
    pc,                  \* position inside add_floor_areas
    horizontal_beams,    \* add_floor_areas local
    beam_pos,            \* _build_graph: number of beams processed so far
    vertex_map,          \* _build_graph local: key -> vertex index
    adjacency_list,      \* _build_graph local: vertex index -> <<neighbor, beam_id>> list
    vertex_count,        \* _build_graph local
    sorted_neighbors,    \* vertex index -> <<neighbor, beam_id, angle>> list
    visited_half_edges,  \* _find_all_faces local
    all_faces,           \* _find_all_faces local
    scan_v,              \* _find_all_faces: vertex of the outer loop
    scan_k,              \* _find_all_faces: position in sorted_neighbors[scan_v]
    start_v,             \* _trace_face argument
    face_vertices,       \* _trace_face local
    current_v,           \* _trace_face local
    next_v_candidate,    \* _trace_face local
    iterations,          \* _trace_face local
    trace_result,        \* value returned by the last _trace_face call
    faces,               \* add_floor_areas local: result of _find_all_faces
    face_pos,            \* _create_areas_without_loads: faces handled so far
    created_areas,       \* _create_areas_without_loads local / add_floor_areas local
    area_pos,            \* add_floor_areas: created areas whose axes were handled
    result,              \* value returned by add_floor_areas: <<names, status>>
    calls,               \* completed add_floor_areas calls: [floor_z, faces, result]
    restraint_requests,  \* host: the SetRestraint calls received: <<point, outcome>>
    rpc,                 \* position inside add_base_restraints
    point_connections,   \* add_base_restraints local: point -> list of frame names
    frame_pos,           \* add_base_restraints: frames handled by the current loop
    restrained_points,   \* add_base_restraints local
    restraint_result,    \* value returned by add_base_restraints: <<points, status>>
    group_requests,      \* host: the SetGroup calls received: <<group, ret>>
    assign_requests,     \* host: the SetGroupAssign calls received: <<frame, outcome>>
    group_frames,        \* create_assign_section_group argument `frames`
    gpc,                 \* position inside create_assign_section_group
    group_pos,           \* create_assign_section_group: frames handled so far
    added_frames,        \* create_assign_section_group local
    group_result         \* value returned by create_assign_section_group

vars == <<frames, namelist_ret, host_faults, host_areas, axis_requests, create_requests, floor_z, tolerance,
          pc, horizontal_beams, beam_pos, vertex_map, adjacency_list,
          vertex_count, sorted_neighbors, visited_half_edges, all_faces,
          scan_v, scan_k, start_v, face_vertices, current_v,
          next_v_candidate, iterations, trace_result, faces, face_pos,
          created_areas, area_pos, result, calls,
          restraint_requests, rpc, point_connections, frame_pos,
          restrained_points, restraint_result,
          group_requests, assign_requests, group_frames, gpc, group_pos,
          added_frames, group_result>>

-----------------------------------------------------------------------------
(* Bounds of the model *)

MaxBeams == 3

MaxCalls == 2

MaxFaults == 1

(* Program constants *)

max_iterations == 1000

-----------------------------------------------------------------------------
(* Arithmetic helpers *)

Abs(n) == IF n < 0 THEN -n ELSE n

RECURSIVE Gcd(_, _)
Gcd(a, b) == IF b = 0 THEN a ELSE Gcd(b, a % b)

Min(S) == CHOOSE m \in S : \A n \in S : m <= n

Max(S) == CHOOSE m \in S : \A n \in S : m >= n

Range(s) == {s[i] : i \in 1..Len(s)}

(* Python's round(v / t) for integers v and t > 0: round half to even. *)
PyRound(v, t) ==
    LET q == v \div t
        r == v % t
    IN  IF 2 * r < t THEN q
        ELSE IF 2 * r > t THEN q + 1
        ELSE IF q % 2 = 0 THEN q ELSE q + 1

(* round(v / tolerance) * tolerance *)
Quantize(v, t) == PyRound(v, t) * t

(* tuple(round(v / tolerance) * tolerance for v in coords) *)
CoordsKey(coords, t) ==
    <<Quantize(coords[1], t), Quantize(coords[2], t), Quantize(coords[3], t)>>

(* math.atan2(dy, dx), represented exactly by the primitive direction of    *)
(* the ray it measures; atan2(0, 0) = 0 = atan2(0, 1).                      *)
Atan2(dy, dx) ==
    IF dx = 0 /\ dy = 0 THEN <<1, 0>>
    ELSE LET g == Gcd(Abs(dx), Abs(dy)) IN <<dx \div g, dy \div g>>

(* The part of (-pi, pi] an angle lies in: (-pi,0), {0}, (0,pi), {pi}. *)
AngleClass(a) ==
    IF a[2] < 0 THEN 1
    ELSE IF a[2] > 0 THEN 3
    ELSE IF a[1] >= 0 THEN 2 ELSE 4

(* a < b for two values of atan2 *)
AngleLess(a, b) ==
    \/ AngleClass(a) < AngleClass(b)
    \/ /\ AngleClass(a) = AngleClass(b)
       /\ AngleClass(a) \in {1, 3}
       /\ a[1] * b[2] - a[2] * b[1] > 0

-----------------------------------------------------------------------------
(* FrameMethods._get_horizontal_beams_at_elevation *)

(* AtElevation with <= for <: an endpoint at distance tolerance is in range *)
AtElevationInclusive(frame, elevation, tol) ==
    /\ Abs(frame.coords_i[3] - elevation) <= tol
    /\ Abs(frame.coords_j[3] - elevation) <= tol

(* abs(z_i - elevation) < tolerance and abs(z_j - elevation) < tolerance *)
AtElevation(frame, elevation, tol) ==
    /\ Abs(frame.coords_i[3] - elevation) < tol
    /\ Abs(frame.coords_j[3] - elevation) < tol

BeamOf(frame) ==
    [name |-> frame.name, coords_i |-> frame.coords_i, coords_j |-> frame.coords_j]

RECURSIVE SelectBeams(_, _, _)
SelectBeams(frs, elevation, tol) ==
    IF frs = <<>> THEN <<>>
    ELSE LET f == Head(frs)
             rest == SelectBeams(Tail(frs), elevation, tol)
         IN  IF f.ret # 0 THEN rest
             ELSE IF f.ret_i # 0 \/ f.ret_j # 0 THEN rest
             ELSE IF AtElevation(f, elevation, tol) THEN <<BeamOf(f)>> \o rest
             ELSE rest

GetHorizontalBeamsAtElevation(frame_list, ret, elevation, tol) ==
    IF ret # 0 THEN <<>>
    ELSE SelectBeams(frame_list, elevation, tol)

-----------------------------------------------------------------------------
(* AreaMethods._build_graph *)

(* GetOrCreateVertex without the `if key not in vertex_map` test: a key    *)
(* that is sighted again is given a new index                               *)
AlwaysCreateVertex(g, key) ==
    [vertex_map     |-> [k \in DOMAIN g.vertex_map \cup {key} |->
                            IF k = key THEN g.vertex_count ELSE g.vertex_map[k]],
     adjacency_list |-> g.adjacency_list @@ (g.vertex_count :> <<>>),
     vertex_count   |-> g.vertex_count + 1]

(* "Get or create vertex indices": one `if key not in vertex_map` block. *)
GetOrCreateVertex(g, key) ==
    IF key \in DOMAIN g.vertex_map THEN g
    ELSE [vertex_map     |-> g.vertex_map @@ (key :> g.vertex_count),
          adjacency_list |-> g.adjacency_list @@ (g.vertex_count :> <<>>),
          vertex_count   |-> g.vertex_count + 1]

(* AddBidirectionalEdges without the mirror entry *)
AddOneDirection(adj, v1, v2, beam_id) ==
    [adj EXCEPT ![v1] = Append(@, <<v2, beam_id>>)]

(* "Add bidirectional edges": the two appends, in the order of the source. *)
AddBidirectionalEdges(adj, v1, v2, beam_id) ==
    LET adj1 == [adj EXCEPT ![v1] = Append(@, <<v2, beam_id>>)]
    IN  [adj1 EXCEPT ![v2] = Append(@, <<v1, beam_id>>)]

(* The body of `for beam in beam_list`. *)
AddBeam(g, beam, tol) ==
    LET coords_i_key == CoordsKey(beam.coords_i, tol)
        coords_j_key == CoordsKey(beam.coords_j, tol)
        g1 == GetOrCreateVertex(g, coords_i_key)
        g2 == GetOrCreateVertex(g1, coords_j_key)
        v1 == g2.vertex_map[coords_i_key]
        v2 == g2.vertex_map[coords_j_key]
    IN  [g2 EXCEPT !.adjacency_list = AddBidirectionalEdges(@, v1, v2, beam.name)]

EmptyGraph == [vertex_map |-> <<>>, adjacency_list |-> <<>>, vertex_count |-> 0]

RECURSIVE BuildGraphFrom(_, _, _)
BuildGraphFrom(g, beam_list, tol) ==
    IF beam_list = <<>> THEN g
    ELSE BuildGraphFrom(AddBeam(g, Head(beam_list), tol), Tail(beam_list), tol)

BuildGraph(beam_list, tol) == BuildGraphFrom(EmptyGraph, beam_list, tol)

-----------------------------------------------------------------------------
(* AreaMethods._compute_angles_around_vertices *)

(* vertex_coords = {v: coords for coords, v in vertex_map.items()} *)
VertexCoords(vm) ==
    [v \in {vm[k] : k \in DOMAIN vm} |-> CHOOSE k \in DOMAIN vm : vm[k] = v]

(* (neighbor_index, beam_id, angle) of one adjacency entry of a vertex *)
AngleEntry(vertex_coords, vertex_index, nb) ==
    LET v_coord == vertex_coords[vertex_index]
        n_coord == vertex_coords[nb[1]]
        dx == n_coord[1] - v_coord[1]
        dy == n_coord[2] - v_coord[2]
    IN  <<nb[1], nb[2], Atan2(dy, dx)>>

(* InsertByAngle without the ordering: a sort that was left out *)
InsertAtEnd(sorted, e) == Append(sorted, e)

(* Insertion of e into an angle-sorted list behind every entry whose angle *)
(* is not greater: list.sort(key=angle) is stable.                          *)
InsertByAngle(sorted, e) ==
    LET before == {i \in 1..Len(sorted) : ~AngleLess(e[3], sorted[i][3])}
        n == Cardinality(before)
    IN  SubSeq(sorted, 1, n) \o <<e>> \o SubSeq(sorted, n + 1, Len(sorted))

RECURSIVE SortByAngleFrom(_, _)
SortByAngleFrom(sorted, rest) ==
    IF rest = <<>> THEN sorted
    ELSE SortByAngleFrom(InsertByAngle(sorted, Head(rest)), Tail(rest))

(* SortByAngle with a sort that is not stable: entries of equal angle come  *)
(* out in reverse insertion order                                           *)
SortByAngleTiesReversed(angle_list) ==
    SortByAngleFrom(<<>>, [i \in 1..Len(angle_list) |->
                              angle_list[Len(angle_list) + 1 - i]])

SortByAngle(angle_list) == SortByAngleFrom(<<>>, angle_list)

ComputeAnglesAroundVertices(vm, adj) ==
    LET vertex_coords == VertexCoords(vm)
    IN  [vertex_index \in DOMAIN adj |->
            SortByAngle([i \in 1..Len(adj[vertex_index]) |->
                AngleEntry(vertex_coords, vertex_index, adj[vertex_index][i])])]

-----------------------------------------------------------------------------
(* AreaMethods._trace_face: the parts of one loop iteration *)

(* MarkedHalfEdge with the current vertex written twice *)
MarkedHalfEdgeTypo(cur, cand) == <<cur, cur>>

(* The half-edge an iteration marks as visited. *)
MarkedHalfEdge(cur, cand) == <<cur, cand>>

(* BackIndex that compares the position in the list (counted from 0, as    *)
(* enumerate does) with prev, for the entry's neighbor                      *)
BackIndexByPosition(neighbors, prev) ==
    LET hits == {i \in 1..Len(neighbors) : i - 1 = prev}
    IN  IF hits = {} THEN 0 ELSE Min(hits)

(* BackIndex that keeps searching after a hit: the last entry that points   *)
(* back to prev                                                             *)
BackIndexLast(neighbors, prev) ==
    LET hits == {i \in 1..Len(neighbors) : neighbors[i][1] = prev}
    IN  IF hits = {} THEN 0 ELSE Max(hits)

(* Index of the first entry of neighbors that points back to prev, 0 when   *)
(* there is none (the source's -1).                                         *)
BackIndex(neighbors, prev) ==
    LET hits == {i \in 1..Len(neighbors) : neighbors[i][1] = prev}
    IN  IF hits = {} THEN 0 ELSE Min(hits)

(* next_index = (back_index + 1) % len(neighbors), for 1-based positions *)
NextIndex(back_index, n) == (back_index % n) + 1

(* LoopContinues with <= for < *)
LoopContinuesOffByOne(iters) == iters <= max_iterations

(* while iterations < max_iterations *)
LoopContinues(iters) == iters < max_iterations

-----------------------------------------------------------------------------
(* AreaMethods._find_all_faces: the duplicate and quadrilateral filter *)

(* FaceSet that keeps order and repetitions: tuple(face) for frozenset(face) *)
FaceTuple(face) == face

(* face_set = frozenset(face) *)
FaceSet(face) == Range(face)

(* SeenBefore without the duplicate test *)
SeenBeforeNever(face_set, unique_face_sets) == FALSE

(* The negation of `if face_set not in unique_face_sets` *)
SeenBefore(face_set, unique_face_sets) == face_set \in unique_face_sets

(* if len(face) == 4 *)
IsQuadrilateral(face) == Len(face) = 4

RECURSIVE FilterFacesFrom(_, _, _)
FilterFacesFrom(unique_faces, unique_face_sets, rest) ==
    IF rest = <<>> THEN unique_faces
    ELSE LET face == Head(rest)
         IN  IF SeenBefore(FaceSet(face), unique_face_sets)
             THEN FilterFacesFrom(unique_faces, unique_face_sets, Tail(rest))
             ELSE FilterFacesFrom(
                      IF IsQuadrilateral(face) THEN Append(unique_faces, face)
                      ELSE unique_faces,
                      unique_face_sets \cup {FaceSet(face)},
                      Tail(rest))

UniqueFaces(traced) == FilterFacesFrom(<<>>, {}, traced)

(* ValidPolygon without the length test *)
ValidPolygonAnyLength(face) == face # <<>>

(* if face_vertices and len(face_vertices) >= 3 *)
ValidPolygon(face) == face # <<>> /\ Len(face) >= 3

-----------------------------------------------------------------------------
(* AreaMethods._create_areas_without_loads and the local-axis loop of      *)
(* add_floor_areas                                                          *)

(* x_array, y_array, z_array of a face, as one list of <<x, y, z>> *)
FaceLoop(face, vm, z) ==
    LET vertex_coords == VertexCoords(vm)
    IN  [i \in 1..Len(face) |->
            <<vertex_coords[face[i]][1], vertex_coords[face[i]][2], z>>]

(* The angle of the SetLocalAxes call of _create_areas_without_loads. *)
SpanAngle(loop) ==
    LET xs == {loop[i][1] : i \in 1..Len(loop)}
        ys == {loop[i][2] : i \in 1..Len(loop)}
        x_span == Max(xs) - Min(xs)
        y_span == Max(ys) - Min(ys)
    IN  IF x_span < y_span THEN 90 ELSE 0

(* math.degrees of a value of atan2 *)
Degrees(a) ==
    CASE a = <<1, 0>>   -> 0
      [] a = <<1, 1>>   -> 45
      [] a = <<0, 1>>   -> 90
      [] a = <<-1, 1>>  -> 135
      [] a = <<-1, 0>>  -> 180
      [] a = <<-1, -1>> -> -135
      [] a = <<0, -1>>  -> -90
      [] a = <<1, -1>>  -> -45

(* dx**2 + dy**2 of edge j of a loop of (x, y) points, j counted from 0;    *)
(* math.sqrt is monotonic, so lengths compare as their squares do.          *)
EdgeLengthSq(point_coords, j) ==
    LET n == Len(point_coords)
        p1 == point_coords[j + 1]
        p2 == point_coords[((j + 1) % n) + 1]
    IN  (p2[1] - p1[1]) * (p2[1] - p1[1]) + (p2[2] - p1[2]) * (p2[2] - p1[2])

EdgeAngle(point_coords, j) ==
    LET n == Len(point_coords)
        p1 == point_coords[j + 1]
        p2 == point_coords[((j + 1) % n) + 1]
    IN  Degrees(Atan2(p2[2] - p1[2], p2[1] - p1[1]))

(* The first edge that is strictly shorter than every edge before it and    *)
(* not longer than any edge after it: `if length < min_length`.             *)
ShortestEdge(point_coords) ==
    LET n == Len(point_coords)
    IN  Min({j \in 0..(n - 1) :
                \A k \in 0..(n - 1) :
                    EdgeLengthSq(point_coords, j) <= EdgeLengthSq(point_coords, k)})

(* best_angle % 360; 0.0 when the area has no points *)
BestAngle(point_coords) ==
    IF point_coords = <<>> THEN 0
    ELSE EdgeAngle(point_coords, ShortestEdge(point_coords)) % 360

-----------------------------------------------------------------------------
(* The host application (external collaborator)                             *)

(* Area names are numbers: the host names the areas it creates 1, 2, ...,   *)
(* NoName is the name it returns with a non-zero code.                      *)
NoName == 0

(* f"Area_{i+1}", the name _create_areas_without_loads makes up for face i  *)
(* (counted from 0) when the host's answer has no name in it; the negative  *)
(* numbers are the names no host area has.                                  *)
MadeUpName(i) == 0 - (i + 1)

(* What AreaObj.AddByCoord may do with a request: create the area, return  *)
(* a non-zero code without creating it, return an answer of 3 entries or    *)
(* less (no name in it) without creating it, or raise.                      *)
CreateOutcomes(faults) ==
    IF faults < MaxFaults THEN {"ok", "rejected", "unnamed", "raises"} ELSE {"ok"}

(* What AreaObj.SetLocalAxes may return for an area the host holds. *)
AxisOutcomes(faults) ==
    IF faults < MaxFaults THEN {0, 1} ELSE {0}

(* AreaObj.GetPoints: the points of an area the host holds, none for an     *)
(* unknown name.                                                            *)
AreaPoints(areas, area_name) ==
    IF area_name \in DOMAIN areas THEN areas[area_name] ELSE <<>>

(* The points of an area whose PointObj.GetCoordCartesian may return a      *)
(* non-zero code, as sets of positions in the area's point list.            *)
CoordOutcomes(points, faults) ==
    {unread \in SUBSET (1..Len(points)) : faults + Cardinality(unread) <= MaxFaults}

(* point_coords: (x, y) of the points whose coordinates the host reports    *)
(* (ret == 0), in the order of the area's point list.                       *)
AreaPointCoords(points, unread) ==
    LET read == (1..Len(points)) \ unread
    IN  [k \in 1..Cardinality(read) |->
            LET i == CHOOSE i \in read : Cardinality({j \in read : j <= i}) = k
            IN  <<points[i][1], points[i][2]>>]

(* The points PointObj.GetNameList() lists *)
HostPoints == UNION {{frames[i].coords_i, frames[i].coords_j} : i \in 1..Len(frames)}

-----------------------------------------------------------------------------
(* Inputs *)

Tolerances == {4}

Elevations == {16, 32}

(* A frame of the host: the coordinates of its two points, the code ret of  *)
(* FrameObj.GetPoints for it, and the codes ret_i and ret_j of              *)
(* PointObj.GetCoordCartesian for its two points.                           *)
Frame(a, b) == [coords_i |-> a, coords_j |-> b, ret |-> 0, ret_i |-> 0, ret_j |-> 0]

(* The host names its frames; here by their position in the list. *)
Named(frame_list) ==
    [i \in 1..Len(frame_list) |->
        [name |-> i, coords_i |-> frame_list[i].coords_i,
         coords_j |-> frame_list[i].coords_j, ret |-> frame_list[i].ret,
         ret_i |-> frame_list[i].ret_i, ret_j |-> frame_list[i].ret_j]]

PA == <<0, 0, 16>>
PB == <<8, 0, 16>>
PC == <<8, 8, 16>>
PD == <<0, 8, 16>>

(* The connector a frame is, whatever its endpoint order *)
Connector(frame) ==
    <<{frame.coords_i, frame.coords_j}, frame.ret,
      {<<frame.coords_i, frame.ret_i>>, <<frame.coords_j, frame.ret_j>>}>>

(* All lists of 1..n frames of S that are pairwise different connectors *)
ConnectorLists(S, n) ==
    UNION {{fl \in [1..k -> S] :
               \A i, j \in 1..k : i # j => Connector(fl[i]) # Connector(fl[j])} :
           k \in 1..n}

Reversed(frame) ==
    [coords_i |-> frame.coords_j, coords_j |-> frame.coords_i, ret |-> frame.ret,
     ret_i |-> frame.ret_j, ret_j |-> frame.ret_i]

BothWays(S) == S \cup {Reversed(f) : f \in S}

(* The sides and one diagonal of a square bay at elevation 16 *)
SquareFrames ==
    BothWays({Frame(PA, PB), Frame(PB, PC), Frame(PC, PD), Frame(PD, PA), Frame(PA, PC)})

(* Frames that test the beam selector and the quantization:                 *)
(*   a stub whose upper end is exactly the tolerance above elevation 16,    *)
(*   a beam within the tolerance of elevation 32,                           *)
(*   a frame whose points the host fails to report,                         *)
(*   a side of the bay with a point whose coordinates the host fails to     *)
(*   report,                                                                *)
(*   a beam that starts 3 above PC: in range of 16, quantized to z = 20.    *)
OtherFrames ==
    {Frame(PA, <<0, 0, 20>>),
     Frame(<<0, 0, 33>>, <<8, 0, 31>>),
     [Frame(PB, PC) EXCEPT !.ret = 1],
     [Frame(PC, PD) EXCEPT !.ret_j = 1],
     Frame(<<8, 8, 19>>, PD)}

GeneralInputs == ConnectorLists(SquareFrames \cup OtherFrames, MaxBeams)

(* A single rectangular bay: its 4 sides in every order and orientation *)
BayInputs ==
    {fl \in ConnectorLists(
               BothWays({Frame(PA, PB), Frame(PB, PC), Frame(PC, PD), Frame(PD, PA)}), 4) :
        Len(fl) = 4}

(* Degenerate and overlapping connectors: a zero-length connector at PA,    *)
(* the side PA-PB in both orientations and once more from a point within    *)
(* the tolerance of PA, and the side PB-PC.                                 *)
DegenerateFrames ==
    {Frame(PA, PA), Frame(PA, PB), Frame(PB, PA), Frame(<<1, 0, 16>>, PB), Frame(PB, PC)}

DegenerateInputs ==
    UNION {{fl \in [1..k -> DegenerateFrames] : \A i, j \in 1..k : i # j => fl[i] # fl[j]} :
           k \in 1..3}

(* A 2 x 2 grid of bays: 3 x 3 nodes and the 12 connectors that join        *)
(* adjacent nodes, rows first.                                              *)
GridNode(c, r) == <<8 * c, 8 * r, 16>>

GridBase ==
    <<Frame(GridNode(0, 0), GridNode(1, 0)), Frame(GridNode(1, 0), GridNode(2, 0)),
      Frame(GridNode(0, 1), GridNode(1, 1)), Frame(GridNode(1, 1), GridNode(2, 1)),
      Frame(GridNode(0, 2), GridNode(1, 2)), Frame(GridNode(1, 2), GridNode(2, 2)),
      Frame(GridNode(0, 0), GridNode(0, 1)), Frame(GridNode(0, 1), GridNode(0, 2)),
      Frame(GridNode(1, 0), GridNode(1, 1)), Frame(GridNode(1, 1), GridNode(1, 2)),
      Frame(GridNode(2, 0), GridNode(2, 1)), Frame(GridNode(2, 1), GridNode(2, 2))>>

(* The list s from position k on, without the entries at positions i and j *)
RECURSIVE WithoutFrom(_, _, _, _)
WithoutFrom(s, i, j, k) ==
    IF k > Len(s) THEN <<>>
    ELSE (IF k \in {i, j} THEN <<>> ELSE <<s[k]>>) \o WithoutFrom(s, i, j, k + 1)

Without(s, i, j) == WithoutFrom(s, i, j, 1)

Oriented(frame, flip) == IF flip THEN Reversed(frame) ELSE frame

(* The grid's connectors with any two of them first, each in either         *)
(* orientation, followed by the others in base order, all in base           *)
(* orientation or all reversed.                                             *)
GridList(i, j, fi, fj, fr) ==
    <<Oriented(GridBase[i], fi), Oriented(GridBase[j], fj)>>
        \o [k \in 1..10 |-> Oriented(Without(GridBase, i, j)[k], fr)]

GridInputs ==
    {GridList(p[1], p[2], fi, fj, fr) :
        p \in {q \in (1..12) \X (1..12) : q[1] # q[2]},
        fi \in BOOLEAN, fj \in BOOLEAN, fr \in BOOLEAN}

(* A braced bay: the 4 sides of the bay and the diagonal PA-PC, in every     *)
(* order, all as listed or all reversed.                                    *)
BracedBayBase ==
    <<Frame(PA, PB), Frame(PB, PC), Frame(PC, PD), Frame(PD, PA), Frame(PA, PC)>>

OrdersOf(n) ==
    {f \in [1..n -> 1..n] : \A i \in 1..n : \A j \in 1..n : i # j => f[i] # f[j]}

BracedBayInputs ==
    {[k \in 1..5 |-> Oriented(BracedBayBase[order[k]], fr)] :
        order \in OrdersOf(5), fr \in BOOLEAN}

(* A cross-braced bay: the 4 sides of the bay and both diagonals, which      *)
(* cross without a common endpoint, in every order, all as listed or all    *)
(* reversed.                                                                *)
CrossBracedBase ==
    <<Frame(PA, PB), Frame(PB, PC), Frame(PC, PD), Frame(PD, PA), Frame(PA, PC),
      Frame(PB, PD)>>

CrossBracedInputs ==
    {[k \in 1..6 |-> Oriented(CrossBracedBase[order[k]], fr)] :
        order \in OrdersOf(6), fr \in BOOLEAN}

(* Inputs of the repeated calls: the bay's sides and diagonal and a beam at *)
(* elevation 32, one orientation each, up to four of them in every order.   *)
RepeatedInputs ==
    ConnectorLists({Frame(PA, PB), Frame(PB, PC), Frame(PC, PD), Frame(PD, PA),
                    Frame(PA, PC), Frame(<<0, 0, 33>>, <<8, 0, 31>>)}, 4)

-----------------------------------------------------------------------------
(* State machine of add_floor_areas *)

(* The values the locals of a call have before the call assigns them. *)
LocalsUnset ==
    /\ horizontal_beams = <<>>
    /\ beam_pos = 0
    /\ vertex_map = <<>>
    /\ adjacency_list = <<>>
    /\ vertex_count = 0
    /\ sorted_neighbors = <<>>
    /\ visited_half_edges = {}
    /\ all_faces = <<>>
    /\ scan_v = 0
    /\ scan_k = 1
    /\ start_v = 0
    /\ face_vertices = <<>>
    /\ current_v = 0
    /\ next_v_candidate = 0
    /\ iterations = 0
    /\ trace_result = <<>>
    /\ faces = <<>>
    /\ face_pos = 0
    /\ created_areas = <<>>
    /\ area_pos = 0
    /\ result = <<>>

(* add_base_restraints has not been called *)
RestraintsUnset ==
    /\ restraint_requests = <<>>
    /\ rpc = "start"
    /\ point_connections = <<>>
    /\ frame_pos = 0
    /\ restrained_points = <<>>
    /\ restraint_result = <<>>

(* create_assign_section_group has not been called *)
GroupUnset ==
    /\ group_requests = <<>>
    /\ assign_requests = <<>>
    /\ gpc = "start"
    /\ group_pos = 0
    /\ added_frames = <<>>
    /\ group_result = <<>>

InitWith(inputs) ==
    /\ RestraintsUnset
    /\ GroupUnset
    /\ group_frames = <<>>
    /\ frames \in {Named(fl) : fl \in inputs}
    /\ namelist_ret \in {0, 1}
    /\ host_faults = 0
    /\ host_areas = <<>>
    /\ axis_requests = <<>>
    /\ create_requests = <<>>
    /\ floor_z \in Elevations
    /\ tolerance \in Tolerances
    /\ pc = "start"
    /\ calls = <<>>
    /\ LocalsUnset

Init == InitWith(GeneralInputs)

hostVars == <<frames, namelist_ret, host_faults, host_areas, axis_requests, create_requests>>
argVars == <<floor_z, tolerance>>
graphVars == <<vertex_map, adjacency_list, vertex_count>>
scanVars == <<scan_v, scan_k>>
traceVars == <<start_v, face_vertices, current_v, next_v_candidate, iterations>>
emitVars == <<face_pos, created_areas, area_pos>>
restraintVars == <<restraint_requests, rpc, point_connections, frame_pos,
                   restrained_points, restraint_result>>
groupVars == <<group_requests, assign_requests, group_frames, gpc, group_pos,
               added_frames, group_result>>

(* The status of `return ([], 1)` in the exception handler *)
ErrorStatus == 1

(* NoAreasStatus reporting a failure *)
NoAreasStatusAsFailure == ErrorStatus

(* The status of `return ([], 0)  # Not an error, just no areas created` *)
NoAreasStatus == 0

(* return (names, status) of add_floor_areas *)
Return(names, status, found) ==
    /\ result' = <<names, status>>
    /\ calls' = Append(calls, [floor_z |-> floor_z, faces |-> found,
                               result |-> <<names, status>>])
    /\ pc' = "done"

(* vertex_map = {} of _build_graph *)
NewVertexMap == <<>>

(* add_floor_areas, lines 58-62, and the first three lines of _build_graph *)
GetBeams ==
    /\ pc = "start"
    /\ UNCHANGED <<restraintVars, groupVars>>
    /\ horizontal_beams' =
           GetHorizontalBeamsAtElevation(frames, namelist_ret, floor_z, tolerance)
    /\ IF horizontal_beams' = <<>>
       THEN /\ Return(<<>>, NoAreasStatus, <<>>)
            /\ UNCHANGED <<beam_pos, graphVars>>
       ELSE /\ pc' = "build"
            /\ vertex_map' = NewVertexMap
            /\ adjacency_list' = <<>>
            /\ vertex_count' = 0
            /\ beam_pos' = 0
            /\ UNCHANGED <<result, calls>>
    /\ UNCHANGED <<hostVars, argVars, sorted_neighbors,
                   visited_half_edges, all_faces, scanVars, traceVars,
                   trace_result, faces, emitVars>>

(* _build_graph: one iteration of `for beam in beam_list` *)
BuildGraphStep ==
    /\ pc = "build"
    /\ UNCHANGED <<restraintVars, groupVars>>
    /\ beam_pos < Len(horizontal_beams)
    /\ LET g == AddBeam([vertex_map |-> vertex_map,
                         adjacency_list |-> adjacency_list,
                         vertex_count |-> vertex_count],
                        horizontal_beams[beam_pos + 1], tolerance)
       IN  /\ vertex_map' = g.vertex_map
           /\ adjacency_list' = g.adjacency_list
           /\ vertex_count' = g.vertex_count
    /\ beam_pos' = beam_pos + 1
    /\ pc' = IF beam_pos' = Len(horizontal_beams) THEN "angles" ELSE "build"
    /\ UNCHANGED <<hostVars, argVars, horizontal_beams, sorted_neighbors,
                   visited_half_edges, all_faces, scanVars, traceVars,
                   trace_result, faces, emitVars, result, calls>>

(* NewVisitedSet when the set outlives the call (kept on the object) *)
StaleVisitedSet == visited_half_edges

(* visited_half_edges = set() of _find_all_faces *)
NewVisitedSet == {}

(* _compute_angles_around_vertices and the first two lines of _find_all_faces *)
ComputeAngles ==
    /\ pc = "angles"
    /\ UNCHANGED <<restraintVars, groupVars>>
    /\ sorted_neighbors' = ComputeAnglesAroundVertices(vertex_map, adjacency_list)
    /\ visited_half_edges' = NewVisitedSet
    /\ all_faces' = <<>>
    /\ scan_v' = 0
    /\ scan_k' = 1
    /\ pc' = "scan"
    /\ UNCHANGED <<hostVars, argVars, horizontal_beams, beam_pos, graphVars,
                   traceVars, trace_result, faces, emitVars, result, calls>>

(* AdvanceScan as a `break` out of both loops: the scan ends *)
StopScan == scan_v' = vertex_count /\ scan_k' = 1

(* The two `for` loops of _find_all_faces move on to the next neighbor. *)
AdvanceScan ==
    IF scan_k < Len(sorted_neighbors[scan_v])
    THEN scan_v' = scan_v /\ scan_k' = scan_k + 1
    ELSE scan_v' = scan_v + 1 /\ scan_k' = 1

(* _find_all_faces: one iteration of the inner loop up to the call of       *)
(* _trace_face, and the first three lines of _trace_face                    *)
ScanStep ==
    /\ pc = "scan"
    /\ UNCHANGED <<restraintVars, groupVars>>
    /\ scan_v < vertex_count
    /\ LET v_next == sorted_neighbors[scan_v][scan_k][1]
       IN  IF <<scan_v, v_next>> \in visited_half_edges
           THEN /\ AdvanceScan
                /\ UNCHANGED <<pc, traceVars>>
           ELSE /\ pc' = "trace"
                /\ start_v' = scan_v
                /\ face_vertices' = <<scan_v>>
                /\ current_v' = scan_v
                /\ next_v_candidate' = v_next
                /\ iterations' = 0
                /\ UNCHANGED scanVars
    /\ UNCHANGED <<hostVars, argVars, horizontal_beams, beam_pos, graphVars,
                   sorted_neighbors, visited_half_edges, all_faces,
                   trace_result, faces, emitVars, result, calls>>

(* _trace_face returns face to _find_all_faces, which keeps it when valid. *)
TraceReturns(face) ==
    /\ trace_result' = face
    /\ all_faces' = IF ValidPolygon(face) THEN Append(all_faces, face) ELSE all_faces
    /\ AdvanceScan
    /\ pc' = "scan"

(* _trace_face: one iteration of the while loop *)
TraceStep ==
    /\ pc = "trace"
    /\ UNCHANGED <<restraintVars, groupVars>>
    /\ LET fv == Append(face_vertices, next_v_candidate)
           neighbors == sorted_neighbors[next_v_candidate]
           back_index == BackIndex(neighbors, face_vertices[Len(face_vertices)])
           cand == neighbors[NextIndex(back_index, Len(neighbors))][1]
       IN  /\ iterations' = iterations + 1
           /\ visited_half_edges' =
                  visited_half_edges \cup {MarkedHalfEdge(current_v, next_v_candidate)}
           /\ current_v' = next_v_candidate
           /\ face_vertices' = fv
           /\ IF back_index = 0
              THEN /\ TraceReturns(<<>>)
                   /\ UNCHANGED next_v_candidate
              ELSE /\ next_v_candidate' = cand
                   /\ IF cand = start_v
                      THEN TraceReturns(fv)
                      ELSE IF LoopContinues(iterations')
                      THEN UNCHANGED <<pc, scanVars, all_faces, trace_result>>
                      ELSE TraceReturns(<<>>)
    /\ UNCHANGED <<hostVars, argVars, horizontal_beams, beam_pos, graphVars,
                   sorted_neighbors, start_v, faces, emitVars, result, calls>>

(* _find_all_faces after its loops (the filter), lines 73-75 of            *)
(* add_floor_areas and the first line of _create_areas_without_loads       *)
FilterFaces ==
    /\ pc = "scan"
    /\ UNCHANGED <<restraintVars, groupVars>>
    /\ scan_v = vertex_count
    /\ faces' = UniqueFaces(all_faces)
    /\ IF faces' = <<>>
       THEN /\ Return(<<>>, NoAreasStatus, <<>>)
            /\ UNCHANGED <<face_pos, created_areas>>
       ELSE /\ pc' = "create"
            /\ face_pos' = 0
            /\ created_areas' = <<>>
            /\ UNCHANGED <<result, calls>>
    /\ UNCHANGED <<hostVars, argVars, horizontal_beams, beam_pos, graphVars,
                   sorted_neighbors, visited_half_edges, all_faces, scanVars,
                   traceVars, trace_result, area_pos>>

(* _create_areas_without_loads: one iteration of `for i, face in            *)
(* enumerate(faces)`; an exception ends add_floor_areas in its handler      *)
CreateArea ==
    /\ pc = "create"
    /\ UNCHANGED <<restraintVars, groupVars>>
    /\ face_pos < Len(faces)
    /\ LET loop == FaceLoop(faces[face_pos + 1], vertex_map, floor_z)
       IN  IF Len(loop) < 3
           THEN /\ UNCHANGED <<hostVars, created_areas, result, calls>>
                /\ face_pos' = face_pos + 1
                /\ pc' = IF face_pos' = Len(faces) THEN "axes" ELSE "create"
           ELSE \E outcome \in CreateOutcomes(host_faults) :
                /\ create_requests' = Append(create_requests, loop)
                /\ UNCHANGED <<frames, namelist_ret>>
                /\ CASE outcome = "raises" ->
                          /\ host_faults' = host_faults + 1
                          /\ Return(<<>>, ErrorStatus, faces)
                          /\ UNCHANGED <<host_areas, axis_requests, created_areas, face_pos>>
                     [] outcome = "rejected" ->
                          /\ host_faults' = host_faults + 1
                          /\ created_areas' = Append(created_areas, NoName)
                          /\ axis_requests' =
                                 Append(axis_requests, <<NoName, SpanAngle(loop), 1>>)
                          /\ face_pos' = face_pos + 1
                          /\ pc' = IF face_pos' = Len(faces) THEN "axes" ELSE "create"
                          /\ UNCHANGED <<host_areas, result, calls>>
                     [] outcome = "unnamed" ->
                          /\ host_faults' = host_faults + 1
                          /\ created_areas' = Append(created_areas, MadeUpName(face_pos))
                          /\ axis_requests' =
                                 Append(axis_requests,
                                        <<MadeUpName(face_pos), SpanAngle(loop), 1>>)
                          /\ face_pos' = face_pos + 1
                          /\ pc' = IF face_pos' = Len(faces) THEN "axes" ELSE "create"
                          /\ UNCHANGED <<host_areas, result, calls>>
                     [] outcome = "ok" ->
                          \E axis_ret \in AxisOutcomes(host_faults) :
                          /\ host_faults' = host_faults + axis_ret
                          /\ host_areas' = Append(host_areas, loop)
                          /\ created_areas' = Append(created_areas, Len(host_areas'))
                          /\ axis_requests' =
                                 Append(axis_requests,
                                        <<Len(host_areas'), SpanAngle(loop), axis_ret>>)
                          /\ face_pos' = face_pos + 1
                          /\ pc' = IF face_pos' = Len(faces) THEN "axes" ELSE "create"
                          /\ UNCHANGED <<result, calls>>
    /\ area_pos' = IF pc' = "axes" THEN 0 ELSE area_pos
    /\ UNCHANGED <<argVars, horizontal_beams, beam_pos, graphVars,
                   sorted_neighbors, visited_half_edges, all_faces, scanVars,
                   traceVars, trace_result, faces>>

(* add_floor_areas: one iteration of `for area_name in created_areas`, and  *)
(* the return that follows the last one                                     *)
SetAxes ==
    /\ pc = "axes"
    /\ UNCHANGED <<restraintVars, groupVars>>
    /\ area_pos < Len(created_areas)
    /\ LET area_name == created_areas[area_pos + 1]
           point_names == AreaPoints(host_areas, area_name)
       IN  IF Len(point_names) > 0
           THEN \E unread \in CoordOutcomes(point_names, host_faults) :
                \E axis_ret \in AxisOutcomes(host_faults + Cardinality(unread)) :
                LET point_coords == AreaPointCoords(point_names, unread)
                IN  /\ host_faults' = host_faults + Cardinality(unread) + axis_ret
                    /\ axis_requests' =
                           Append(axis_requests,
                                  <<area_name, BestAngle(point_coords), axis_ret>>)
           ELSE UNCHANGED <<host_faults, axis_requests>>
    /\ area_pos' = area_pos + 1
    /\ IF area_pos' = Len(created_areas)
       THEN Return(created_areas, 0, faces)
       ELSE UNCHANGED <<pc, result, calls>>
    /\ UNCHANGED <<frames, namelist_ret, host_areas, create_requests, argVars,
                   horizontal_beams, beam_pos, graphVars, sorted_neighbors,
                   visited_half_edges, all_faces, scanVars, traceVars,
                   trace_result, faces, face_pos, created_areas>>

(* The caller calls add_floor_areas once more.  What the previous call left *)
(* in its locals stays in memory until the new call assigns them.          *)
InvokeAgain ==
    /\ pc = "done"
    /\ UNCHANGED <<restraintVars, groupVars>>
    /\ Len(calls) < MaxCalls
    /\ floor_z' \in Elevations
    /\ pc' = "start"
    /\ result' = <<>>
    /\ UNCHANGED <<hostVars, calls, tolerance, horizontal_beams, beam_pos, graphVars,
                   sorted_neighbors, visited_half_edges, all_faces, scanVars,
                   traceVars, trace_result, faces, emitVars>>

Next ==
    \/ GetBeams
    \/ BuildGraphStep
    \/ ComputeAngles
    \/ ScanStep
    \/ TraceStep
    \/ FilterFaces
    \/ CreateArea
    \/ SetAxes

Spec == Init /\ [][Next]_vars

InitBay == InitWith(BayInputs)

SpecBay == InitBay /\ [][Next]_vars

InitDegenerate == InitWith(DegenerateInputs)

SpecDegenerate == InitDegenerate /\ [][Next]_vars

InitGrid == InitWith(GridInputs)

SpecGrid == InitGrid /\ [][Next]_vars

InitAll == InitWith(GeneralInputs \cup DegenerateInputs)

SpecAll == InitAll /\ [][Next]_vars

InitBraced == InitWith(BracedBayInputs)

SpecBraced == InitBraced /\ [][Next]_vars

InitCrossBraced == InitWith(CrossBracedInputs)

SpecCrossBraced == InitCrossBraced /\ [][Next]_vars

InitRepeated == InitWith(RepeatedInputs)

NextRepeated == Next \/ InvokeAgain

SpecRepeated == InitRepeated /\ [][NextRepeated]_vars

(* Inputs that are run once as they are and once more with one connector   *)
(* added to them: an open polyline, the bay, and the bay without a side     *)
ComparedInputs ==
    {<<Frame(PA, PB), Frame(PB, PC)>>,
     <<Frame(PA, PB), Frame(PB, PC), Frame(PC, PD)>>,
     <<Frame(PA, PB), Frame(PB, PC), Frame(PC, PD), Frame(PD, PA)>>}

(* The list with e put in front of position pos *)
InsertAt(list, pos, e) ==
    SubSeq(list, 1, pos - 1) \o <<e>> \o SubSeq(list, pos, Len(list))

(* The frames of the host, unnamed *)
Unnamed(frame_list) ==
    [i \in 1..Len(frame_list) |->
        [coords_i |-> frame_list[i].coords_i, coords_j |-> frame_list[i].coords_j,
         ret |-> frame_list[i].ret, ret_i |-> frame_list[i].ret_i,
         ret_j |-> frame_list[i].ret_j]]

(* After the first call the host gains the connector extra at position pos  *)
(* of its frame list, and the caller calls add_floor_areas again at the     *)
(* same elevation.                                                          *)
InvokeWith(extra, pos) ==
    /\ pc = "done"
    /\ Len(calls) = 1
    /\ frames' = Named(InsertAt(Unnamed(frames), pos, extra))
    /\ pc' = "start"
    /\ result' = <<>>
    /\ UNCHANGED <<namelist_ret, host_faults, host_areas, axis_requests,
                   create_requests, calls, argVars, horizontal_beams, beam_pos,
                   graphVars, sorted_neighbors, visited_half_edges, all_faces,
                   scanVars, traceVars, trace_result, faces, emitVars,
                   restraintVars, groupVars>>

(* The connector added is degenerate: from an endpoint of the framing to    *)
(* the same point.                                                          *)
InvokeWithDegenerate ==
    \E point \in HostPoints : \E pos \in 1..(Len(frames) + 1) :
        InvokeWith(Frame(point, point), pos)

NextDegenerateAdded == Next \/ InvokeWithDegenerate

(* The extra connector is a second copy of a connector of the input, as     *)
(* listed or reversed.                                                      *)
InvokeWithDuplicate ==
    \E k \in 1..Len(frames) : \E fr \in BOOLEAN : \E pos \in 1..(Len(frames) + 1) :
        InvokeWith(Oriented(Unnamed(frames)[k], fr), pos)

NextDuplicateAdded == Next \/ InvokeWithDuplicate

InitCompared == InitWith(ComparedInputs)

SpecDuplicateAdded == InitCompared /\ [][NextDuplicateAdded]_vars

SpecDegenerateAdded == InitCompared /\ [][NextDegenerateAdded]_vars

-----------------------------------------------------------------------------
(* GroupMethods.add_base_restraints                                         *)
(* A point is named by its coordinates: frames that end at the same         *)
(* coordinates share the point.                                             *)

(* What PointObj.GetNameList() may return as its code *)
PointListOutcomes(faults) ==
    IF faults < MaxFaults THEN {0, 1} ELSE {0}

(* What PointObj.SetRestraint may do: return 0, return a non-zero code, or  *)
(* raise.                                                                   *)
RestraintOutcomes(faults) ==
    IF faults < MaxFaults THEN {"ok", "fails", "raises"} ELSE {"ok"}

(* point_connections[point_i].append(frame_name) and the same for point_j *)
Connect(connections, frame) ==
    LET c1 == [connections EXCEPT ![frame.coords_i] = Append(@, frame.name)]
    IN  [c1 EXCEPT ![frame.coords_j] = Append(@, frame.name)]

(* bottom_point = point_i if z_i < z_j else point_j *)
BottomPoint(frame) ==
    IF frame.coords_i[3] < frame.coords_j[3] THEN frame.coords_i ELSE frame.coords_j

(* if len(point_connections[bottom_point]) == 1 *)
OnlyThisFrame(connections, point) == Len(connections[point]) = 1

(* return (points, status) of add_base_restraints *)
RestraintReturn(points, status) ==
    /\ restraint_result' = <<points, status>>
    /\ rpc' = "done"

floorVars == <<host_areas, axis_requests, create_requests, argVars, pc,
               horizontal_beams, beam_pos, graphVars, sorted_neighbors,
               visited_half_edges, all_faces, scanVars, traceVars, trace_result,
               faces, emitVars, result, calls>>

(* add_base_restraints up to the creation of point_connections *)
GetNameLists ==
    /\ rpc = "start"
    /\ IF namelist_ret # 0 \/ frames = <<>>
       THEN /\ RestraintReturn(<<>>, 1)
            /\ UNCHANGED <<host_faults, point_connections, frame_pos>>
       ELSE \E ret \in PointListOutcomes(host_faults) :
            /\ host_faults' = host_faults + ret
            /\ IF ret # 0
               THEN /\ RestraintReturn(<<>>, 1)
                    /\ UNCHANGED <<point_connections, frame_pos>>
               ELSE /\ point_connections' = [point_name \in HostPoints |-> <<>>]
                    /\ frame_pos' = 0
                    /\ rpc' = "connect"
                    /\ UNCHANGED restraint_result
    /\ UNCHANGED <<frames, namelist_ret, restraint_requests, restrained_points,
                   floorVars, groupVars>>

(* One iteration of the loop that builds the connectivity; after the last   *)
(* one, restrained_points = []                                              *)
ConnectStep ==
    /\ rpc = "connect"
    /\ frame_pos < Len(frames)
    /\ LET frame == frames[frame_pos + 1]
       IN  point_connections' =
               IF frame.ret = 0 THEN Connect(point_connections, frame)
               ELSE point_connections
    /\ IF frame_pos + 1 = Len(frames)
       THEN /\ rpc' = "restrain"
            /\ frame_pos' = 0
            /\ restrained_points' = <<>>
       ELSE /\ frame_pos' = frame_pos + 1
            /\ UNCHANGED <<rpc, restrained_points>>
    /\ UNCHANGED <<frames, namelist_ret, host_faults, restraint_requests,
                   restraint_result, floorVars, groupVars>>

(* One iteration of the loop that restrains the column bases, and the       *)
(* return that follows the last one; an exception ends the call in its      *)
(* handler                                                                  *)
RestrainStep ==
    /\ rpc = "restrain"
    /\ frame_pos < Len(frames)
    /\ frame_pos' = frame_pos + 1
    /\ LET frame == frames[frame_pos + 1]
           bottom_point == BottomPoint(frame)
           last == frame_pos + 1 = Len(frames)
       IN  IF /\ frame.ret = 0
              /\ frame.ret_i = 0 /\ frame.ret_j = 0
              /\ OnlyThisFrame(point_connections, bottom_point)
           THEN \E outcome \in RestraintOutcomes(host_faults) :
                /\ restraint_requests' = Append(restraint_requests, <<bottom_point, outcome>>)
                /\ host_faults' = host_faults + (IF outcome = "ok" THEN 0 ELSE 1)
                /\ restrained_points' =
                       IF outcome = "ok" THEN Append(restrained_points, bottom_point)
                       ELSE restrained_points
                /\ IF outcome = "raises" THEN RestraintReturn(<<>>, 1)
                   ELSE IF last THEN RestraintReturn(restrained_points', 0)
                   ELSE UNCHANGED <<rpc, restraint_result>>
           ELSE /\ UNCHANGED <<restraint_requests, host_faults, restrained_points>>
                /\ IF last THEN RestraintReturn(restrained_points, 0)
                   ELSE UNCHANGED <<rpc, restraint_result>>
    /\ UNCHANGED <<frames, namelist_ret, point_connections, floorVars, groupVars>>

NextRestraints ==
    \/ GetNameLists
    \/ ConnectStep
    \/ RestrainStep

(* Two columns under the side PA-PB of the bay, a column above PA, the side *)
(* itself, a frame whose points the host fails to report, and the column    *)
(* under PA once more with a point whose coordinates the host fails to      *)
(* report                                                                   *)
RestraintFrames ==
    BothWays({Frame(<<0, 0, 0>>, PA), Frame(<<8, 0, 0>>, PB), Frame(PA, <<0, 0, 32>>),
              Frame(PA, PB)})
        \cup {[Frame(PB, PC) EXCEPT !.ret = 1],
              [Frame(<<0, 0, 0>>, PA) EXCEPT !.ret_i = 1],
              [Frame(<<0, 0, 0>>, PA) EXCEPT !.ret_j = 1]}

RestraintInputs == {<<>>} \cup ConnectorLists(RestraintFrames, MaxBeams)

(* The host before any area request *)
HostUntouched ==
    /\ host_faults = 0
    /\ host_areas = <<>>
    /\ axis_requests = <<>>
    /\ create_requests = <<>>

(* add_floor_areas has not been called *)
FloorUnset ==
    /\ floor_z = 16
    /\ tolerance = 4
    /\ pc = "start"
    /\ calls = <<>>
    /\ LocalsUnset

InitRestraints ==
    /\ frames \in {Named(fl) : fl \in RestraintInputs}
    /\ namelist_ret \in {0, 1}
    /\ HostUntouched
    /\ FloorUnset
    /\ RestraintsUnset
    /\ GroupUnset
    /\ group_frames = <<>>

SpecRestraints == InitRestraints /\ [][NextRestraints]_vars

-----------------------------------------------------------------------------
(* GroupMethods.create_assign_section_group *)

(* What GroupDef.SetGroup may do *)
GroupOutcomes(faults) ==
    IF faults < MaxFaults THEN {"ok", "fails", "raises"} ELSE {"ok"}

(* The names FrameObj knows *)
HostFrameNames == {frames[i].name : i \in 1..Len(frames)}

(* What FrameObj.SetGroupAssign may do with a frame name: an unknown name   *)
(* is refused with a non-zero code.                                         *)
AssignOutcomes(frame, faults) ==
    IF frame \notin HostFrameNames THEN {"fails"}
    ELSE IF faults < MaxFaults THEN {"ok", "fails", "raises"}
    ELSE {"ok"}

(* if ret != 0: warning, else: added_frames.append(frame) *)
AddedAfter(added, frame, outcome) ==
    IF outcome = "ok" THEN Append(added, frame) ELSE added

(* return (names, status) of create_assign_section_group *)
GroupReturn(names, status) ==
    /\ group_result' = <<names, status>>
    /\ gpc' = "done"

(* create_assign_section_group up to its loop *)
SetGroup ==
    /\ gpc = "start"
    /\ \E outcome \in GroupOutcomes(host_faults) :
          /\ group_requests' = Append(group_requests, outcome)
          /\ host_faults' = host_faults + (IF outcome = "ok" THEN 0 ELSE 1)
          /\ IF outcome # "ok"
             THEN /\ GroupReturn(<<>>, 1)
                  /\ UNCHANGED <<added_frames, group_pos>>
             ELSE /\ added_frames' = <<>>
                  /\ group_pos' = 0
                  /\ IF group_frames = <<>> THEN GroupReturn(<<>>, 0)
                     ELSE gpc' = "assign" /\ UNCHANGED group_result
    /\ UNCHANGED <<frames, namelist_ret, assign_requests, group_frames,
                   floorVars, restraintVars>>

(* One iteration of `for frame in frames`, and the return that follows the  *)
(* last one; an exception ends the call in its handler                      *)
AssignStep ==
    /\ gpc = "assign"
    /\ group_pos < Len(group_frames)
    /\ group_pos' = group_pos + 1
    /\ LET frame == group_frames[group_pos + 1]
       IN  \E outcome \in AssignOutcomes(frame, host_faults) :
           /\ assign_requests' = Append(assign_requests, <<frame, outcome>>)
           /\ host_faults' =
                  host_faults + (IF outcome = "ok" \/ frame \notin HostFrameNames THEN 0 ELSE 1)
           /\ added_frames' = AddedAfter(added_frames, frame, outcome)
           /\ IF outcome = "raises" THEN GroupReturn(<<>>, 1)
              ELSE IF group_pos' = Len(group_frames) THEN GroupReturn(added_frames', 0)
              ELSE UNCHANGED <<gpc, group_result>>
    /\ UNCHANGED <<frames, namelist_ret, group_requests, group_frames,
                   floorVars, restraintVars>>

NextGroup ==
    \/ SetGroup
    \/ AssignStep

(* The frame names a caller may pass: two frames the host holds and one it  *)
(* does not hold                                                            *)
GroupFrameNames == 1..3

GroupInputs == UNION {[1..k -> GroupFrameNames] : k \in 0..MaxBeams}

InitGroup ==
    /\ frames = Named(<<Frame(PA, PB), Frame(PB, PC)>>)
    /\ namelist_ret = 0
    /\ HostUntouched
    /\ FloorUnset
    /\ RestraintsUnset
    /\ GroupUnset
    /\ group_frames \in GroupInputs

SpecGroup == InitGroup /\ [][NextGroup]_vars

-----------------------------------------------------------------------------
(* Vocabulary of the properties *)

(* The quantized endpoints and the sides of a list of beams *)
EndKeys(beam, tol) == {CoordsKey(beam.coords_i, tol), CoordsKey(beam.coords_j, tol)}

BeamKeys(beam_list, tol) == UNION {EndKeys(beam_list[i], tol) : i \in 1..Len(beam_list)}

(* The keys joined to key k by a beam of the list *)
JoinedTo(k, beam_list, tol) ==
    {m \in BeamKeys(beam_list, tol) :
        m # k /\ \E i \in 1..Len(beam_list) : EndKeys(beam_list[i], tol) = {k, m}}

RECURSIVE ReachableFrom(_, _, _)
ReachableFrom(S, beam_list, tol) ==
    LET T == S \cup UNION {JoinedTo(k, beam_list, tol) : k \in S}
    IN  IF T = S THEN S ELSE ReachableFrom(T, beam_list, tol)

(* One or more connectors joined end to end, with no closed loop *)
IsOpenPolyline(beam_list, tol) ==
    LET keys == BeamKeys(beam_list, tol)
    IN  /\ beam_list # <<>>
        /\ \A i \in 1..Len(beam_list) : Cardinality(EndKeys(beam_list[i], tol)) = 2
        /\ \A i, j \in 1..Len(beam_list) :
               i # j => EndKeys(beam_list[i], tol) # EndKeys(beam_list[j], tol)
        /\ Cardinality(keys) = Len(beam_list) + 1
        /\ \A k \in keys : Cardinality(JoinedTo(k, beam_list, tol)) <= 2
        /\ ReachableFrom({CHOOSE k \in keys : TRUE}, beam_list, tol) = keys

(* The beams contain the four sides of a closed quadrilateral bay *)
HasClosedBay(beam_list, tol) ==
    \E a, b, c, d \in BeamKeys(beam_list, tol) :
        /\ Cardinality({a, b, c, d}) = 4
        /\ b \in JoinedTo(a, beam_list, tol)
        /\ c \in JoinedTo(b, beam_list, tol)
        /\ d \in JoinedTo(c, beam_list, tol)
        /\ a \in JoinedTo(d, beam_list, tol)

(* The key of a vertex index *)
KeyOf(v) == VertexCoords(vertex_map)[v]

(* The sides of a face: consecutive entries, and the last with the first *)
FaceSides(face) == {<<face[k], face[(k % Len(face)) + 1]>> : k \in 1..Len(face)}

(* The (x, y) corners of a face *)
FaceCorners(face) == {<<KeyOf(v)[1], KeyOf(v)[2]>> : v \in Range(face)}

(* The host lists exactly the given connectors, each once and readable *)
FramesAre(connectors) ==
    /\ Len(frames) = Cardinality(connectors)
    /\ {{frames[i].coords_i, frames[i].coords_j} : i \in 1..Len(frames)} = connectors
    /\ \A i \in 1..Len(frames) :
           frames[i].ret = 0 /\ frames[i].ret_i = 0 /\ frames[i].ret_j = 0

SingleBayInput == FramesAre({{PA, PB}, {PB, PC}, {PC, PD}, {PD, PA}})

GridInput ==
    FramesAre({{GridBase[i].coords_i, GridBase[i].coords_j} : i \in 1..Len(GridBase)})

GridBays ==
    {{<<8 * c, 8 * r>>, <<8 * (c + 1), 8 * r>>, <<8 * (c + 1), 8 * (r + 1)>>,
      <<8 * c, 8 * (r + 1)>>} : c \in {0, 1}, r \in {0, 1}}

-----------------------------------------------------------------------------
(* Properties *)

(* C1: every face returned by _find_all_faces has exactly 4 entries that   *)
(* are pairwise distinct vertex indices.                                   *)
ReturnedFacesAreSimpleQuads ==
    \A i \in 1..Len(faces) :
        Len(faces[i]) = 4 /\ Cardinality(Range(faces[i])) = 4

(* C2: for a single rectangular bay in any connector order and orientation *)
(* the detector finds exactly one face and requests exactly one area, whose *)
(* loop is the 4 corners at the requested elevation; with a host that       *)
(* serves every request the call returns that one area with status 0.       *)
SingleBayGivesOnePanel ==
    (SingleBayInput /\ namelist_ret = 0 /\ floor_z = 16 /\ pc = "done") =>
        /\ Len(faces) = 1
        /\ Len(create_requests) = 1
        /\ Len(create_requests[1]) = 4
        /\ Range(create_requests[1]) =
               {<<0, 0, 16>>, <<8, 0, 16>>, <<8, 8, 16>>, <<0, 8, 16>>}
        /\ host_faults = 0 =>
               /\ result = <<<<1>>, 0>>
               /\ host_areas = <<create_requests[1]>>

SingleBayWitness ==
    /\ SingleBayInput /\ namelist_ret = 0 /\ floor_z = 16 /\ pc = "done"
    /\ frames[1].coords_i = PC /\ frames[1].coords_j = PB
    /\ frames[2].coords_i = PA
    /\ result = <<<<1>>, 0>>

(* C3: for the 2 x 2 grid of bays the detector returns exactly 4 faces,     *)
(* each with 4 distinct vertices, one for each bay with that bay's corners; *)
(* the outer perimeter is not among them.                                   *)
GridGivesFourBays ==
    (GridInput /\ namelist_ret = 0 /\ floor_z = 16 /\ pc \in {"create", "axes", "done"}) =>
        /\ Len(faces) = 4
        /\ \A i \in 1..4 : Cardinality(Range(faces[i])) = 4
        /\ {FaceCorners(faces[i]) : i \in 1..4} = GridBays

GridWitness ==
    /\ GridInput /\ namelist_ret = 0 /\ floor_z = 16 /\ pc = "done"
    /\ frames[1].coords_i = GridNode(2, 2)
    /\ Len(faces) = 4
    /\ result[2] = 0

(* C4: an open polyline yields no panel and status 0, and where a closed   *)
(* bay exists no side of a returned face ends in a vertex that only one     *)
(* connector reaches (a dangling connector).                                *)
OpenPolylineGivesNoPanel ==
    (pc \in {"create", "axes", "done"} /\ horizontal_beams # <<>>) =>
        /\ IsOpenPolyline(horizontal_beams, tolerance) =>
               /\ faces = <<>>
               /\ create_requests = <<>>
               /\ pc = "done" => result = <<<<>>, 0>>
        /\ HasClosedBay(horizontal_beams, tolerance) =>
               \A i \in 1..Len(faces) : \A side \in FaceSides(faces[i]) :
                   /\ Len(adjacency_list[side[1]]) >= 2
                   /\ Len(adjacency_list[side[2]]) >= 2

(* C5: two endpoints of processed connectors that differ by less than the  *)
(* tolerance on every axis, and are not equal, are the same vertex.         *)
CloseTo(e1, e2, tol) ==
    /\ e1 # e2
    /\ \A axis \in 1..3 : Abs(e1[axis] - e2[axis]) < tol

ProcessedEndpoints ==
    UNION {{horizontal_beams[i].coords_i, horizontal_beams[i].coords_j} : i \in 1..beam_pos}

CloseEndpointsShareVertex ==
    pc \in {"build", "angles", "scan", "trace"} =>
        \A e1, e2 \in ProcessedEndpoints :
            CloseTo(e1, e2, tolerance) =>
                vertex_map[CoordsKey(e1, tolerance)] = vertex_map[CoordsKey(e2, tolerance)]

(* C6: a trace never runs more than 1000 iterations: while it runs it has   *)
(* done fewer, and a trace that did 1000 without arriving at a hop back to  *)
(* the start vertex has returned the empty face.                            *)
TraceStopsAtCap ==
    /\ iterations <= max_iterations
    /\ pc = "trace" => iterations < max_iterations
    /\ (pc # "trace" /\ iterations = max_iterations /\ next_v_candidate # start_v) =>
           trace_result = <<>>

TraceCapWitness ==
    /\ pc = "scan"
    /\ iterations = max_iterations
    /\ next_v_candidate # start_v
    /\ trace_result = <<>>
    /\ start_v \notin Range(SubSeq(face_vertices, 2, Len(face_vertices)))

(* C7: no trace walks a half-edge that is already in the visited set.       *)
HalfEdgeWalkedAtMostOnce ==
    [][TraceStep => MarkedHalfEdge(current_v, next_v_candidate) \notin visited_half_edges]_vars

(* C8: during _find_all_faces the visited set holds at most twice as many   *)
(* half-edges as there are connectors, and each is a direction of a         *)
(* connector that joins its two vertices.                                   *)
VisitedWithinTwiceEdges ==
    pc \in {"scan", "trace"} =>
        /\ Cardinality(visited_half_edges) <= 2 * Len(horizontal_beams)
        /\ \A h \in visited_half_edges :
               \E i \in 1..Len(horizontal_beams) :
                   EndKeys(horizontal_beams[i], tolerance) = {KeyOf(h[1]), KeyOf(h[2])}

VisitedWitness ==
    /\ pc = "scan"
    /\ scan_v = vertex_count
    /\ Len(horizontal_beams) = 3
    /\ Cardinality(visited_half_edges) = 6

(* C9: when no connector has both endpoints within the tolerance of the     *)
(* elevation, or connectors qualify and no trace completes a face, the call *)
(* returns the empty list with status 0 and the host has received no        *)
(* area-creation and no local-axis request.                                 *)
NoQualifyingConnector ==
    \A i \in 1..Len(frames) : ~AtElevation(frames[i], floor_z, tolerance)

NoClosedFace == horizontal_beams # <<>> /\ all_faces = <<>>

NoInputIsNotAnError ==
    (pc = "done" /\ (NoQualifyingConnector \/ NoClosedFace)) =>
        /\ result = <<<<>>, 0>>
        /\ create_requests = <<>>
        /\ axis_requests = <<>>

NoInputWitness ==
    /\ pc = "done"
    /\ NoClosedFace
    /\ ~NoQualifyingConnector
    /\ Len(horizontal_beams) = 2
    /\ result = <<<<>>, 0>>

NoConnectorWitness ==
    /\ pc = "done"
    /\ NoQualifyingConnector
    /\ namelist_ret = 0
    /\ \E i \in 1..Len(frames) : Abs(frames[i].coords_j[3] - floor_z) = tolerance
    /\ result = <<<<>>, 0>>

(* C10: two calls on the same connectors at the same elevation find the    *)
(* same faces, and every call starts from an empty vertex map and an empty  *)
(* visited set, whatever the calls before it left behind.                   *)
RepeatedCallsAgree ==
    /\ \A i, j \in 1..Len(calls) :
           calls[i].floor_z = calls[j].floor_z => calls[i].faces = calls[j].faces
    /\ (pc = "build" /\ beam_pos = 0) => vertex_map = <<>>
    /\ (pc = "scan" /\ scan_v = 0 /\ scan_k = 1) => visited_half_edges = {}

RepeatedCallsWitness ==
    /\ Len(calls) = 2
    /\ calls[1].floor_z = calls[2].floor_z
    /\ calls[1].faces # <<>>
    /\ calls[2].faces = calls[1].faces

(* C11: the selector returns, in the host's order, exactly the connectors   *)
(* (frames whose endpoints the host reports) with both endpoints strictly   *)
(* closer than the tolerance to the elevation, and it leaves the host as it *)
(* was.                                                                     *)
InRange(z) == Abs(z - floor_z) < tolerance

QualifyingPositions ==
    {i \in 1..Len(frames) :
        /\ frames[i].ret = 0
        /\ frames[i].ret_i = 0 /\ frames[i].ret_j = 0
        /\ InRange(frames[i].coords_i[3])
        /\ InRange(frames[i].coords_j[3])}

(* The k-th smallest element of a set of positions *)
KthPosition(Q, k) == CHOOSE i \in Q : Cardinality({j \in Q : j <= i}) = k

IsSelection(beams) ==
    /\ Len(beams) = Cardinality(QualifyingPositions)
    /\ \A k \in 1..Len(beams) :
           LET fr == frames[KthPosition(QualifyingPositions, k)]
           IN  /\ beams[k].name = fr.name
               /\ beams[k].coords_i = fr.coords_i
               /\ beams[k].coords_j = fr.coords_j

SelectorReturnsQualifyingInOrder ==
    [][GetBeams =>
          /\ namelist_ret = 0 => IsSelection(horizontal_beams')
          /\ UNCHANGED hostVars]_vars

SelectorWitness ==
    /\ pc = "build" /\ beam_pos = 0
    /\ floor_z = 16
    /\ Len(frames) = 3
    /\ frames[1].coords_i = PC /\ frames[1].coords_j = PD
    /\ frames[2].coords_j = <<0, 0, 20>>
    /\ frames[3].coords_i = PA /\ frames[3].coords_j = PB
    /\ Len(horizontal_beams) = 2
    /\ horizontal_beams[1].name = 1 /\ horizontal_beams[2].name = 3

(* C12: after any prefix of the connector list the adjacency structure is   *)
(* symmetric, entry for entry and connector id for connector id, and holds  *)
(* two entries for every processed connector.                               *)
CountOf(list, e) == Cardinality({i \in 1..Len(list) : list[i] = e})

RECURSIVE EntriesUpTo(_)
EntriesUpTo(v) ==
    IF v < 0 THEN 0 ELSE Len(adjacency_list[v]) + EntriesUpTo(v - 1)

AdjacencyIsSymmetric ==
    /\ \A v \in DOMAIN adjacency_list : \A n \in DOMAIN adjacency_list :
           \A id \in 1..Len(frames) :
               CountOf(adjacency_list[v], <<n, id>>) = CountOf(adjacency_list[n], <<v, id>>)
    /\ \A v \in DOMAIN adjacency_list : \A i \in 1..Len(adjacency_list[v]) :
           adjacency_list[v][i][1] \in DOMAIN adjacency_list
    /\ EntriesUpTo(vertex_count - 1) = 2 * beam_pos

AdjacencyWitness ==
    /\ pc = "build"
    /\ beam_pos = 2
    /\ Len(horizontal_beams) = 3
    /\ vertex_count = 2
    /\ adjacency_list[0] = <<<<1, 1>>, <<1, 2>>>>
    /\ adjacency_list[1] = <<<<0, 1>>, <<0, 2>>>>

(* C13: after any prefix of the connector list the map from quantized keys  *)
(* to vertex indices is a bijection from the keys sighted so far onto       *)
(* 0..vertex_count-1, in first-sighting order, every index has an adjacency *)
(* list, and a step of the builder keeps every pair it finds in the map.    *)
(* The keys of the processed beams in the order the builder sights them *)
SightedKeys ==
    [p \in 1..(2 * beam_pos) |->
        LET beam == horizontal_beams[(p + 1) \div 2]
        IN  CoordsKey(IF p % 2 = 1 THEN beam.coords_i ELSE beam.coords_j, tolerance)]

VertexMapIsBijection ==
    LET sighted == SightedKeys
        first == [k \in Range(sighted) |->
                     Min({p \in 1..Len(sighted) : sighted[p] = k})]
    IN  /\ DOMAIN vertex_map = Range(sighted)
        /\ {vertex_map[k] : k \in DOMAIN vertex_map} = 0..(vertex_count - 1)
        /\ \A k1 \in DOMAIN vertex_map : \A k2 \in DOMAIN vertex_map :
               /\ k1 # k2 => vertex_map[k1] # vertex_map[k2]
               /\ first[k1] < first[k2] => vertex_map[k1] < vertex_map[k2]
        /\ DOMAIN adjacency_list = 0..(vertex_count - 1)

AssignedPairsKept ==
    \A k \in DOMAIN vertex_map :
        k \in DOMAIN vertex_map' /\ vertex_map'[k] = vertex_map[k]

VertexMapStaysBijection ==
    /\ []VertexMapIsBijection
    /\ [][BuildGraphStep => AssignedPairsKept]_vars

VertexMapWitness ==
    /\ pc = "build"
    /\ beam_pos = 2
    /\ Len(horizontal_beams) = 3
    /\ horizontal_beams[1].coords_i = <<1, 0, 16>>
    /\ vertex_count = 3
    /\ vertex_map[<<0, 0, 16>>] = 0
    /\ vertex_map[PB] = 1
    /\ vertex_map[PC] = 2

(* C14: when the host fails one area creation, every face of the floor has  *)
(* still been submitted when the call returns, and the call returns the     *)
(* areas the host created, in the order of their creation.                  *)
HostAreaNames == [i \in 1..Len(host_areas) |-> i]

CreationFailureDoesNotAbortFloor ==
    (pc = "done" /\ faces # <<>>) =>
        /\ Len(create_requests) = Len(faces)
        /\ result[1] = HostAreaNames

(* C15: every area the call returns was created by the host and had every   *)
(* one of its local-axis assignments accepted.                              *)
AxisRequestsOf(area_name) ==
    {i \in 1..Len(axis_requests) : axis_requests[i][1] = area_name}

ReturnedPanelsFullySucceeded ==
    pc = "done" =>
        \A i \in 1..Len(result[1]) :
            /\ result[1][i] \in DOMAIN host_areas
            /\ \A r \in AxisRequestsOf(result[1][i]) : axis_requests[r][3] = 0

(* C16: add_base_restraints requests a restraint only for the lower         *)
(* endpoint of a column that no other frame is connected to, never for an   *)
(* endpoint of a horizontal frame, and when no host call raised it returns  *)
(* exactly the points whose restraint request succeeded, with status 0.     *)
ReadableFrames == {i \in 1..Len(frames) : frames[i].ret = 0}

EndsOf(frame) == {frame.coords_i, frame.coords_j}

IsColumn(frame) == frame.coords_i[3] # frame.coords_j[3]

LowerEnd(frame) ==
    CHOOSE e \in EndsOf(frame) : \A o \in EndsOf(frame) : e[3] <= o[3]

IsFreeColumnBase(point) ==
    \E i \in ReadableFrames :
        /\ IsColumn(frames[i])
        /\ point = LowerEnd(frames[i])
        /\ \A j \in ReadableFrames \ {i} : point \notin EndsOf(frames[j])

OnHorizontalFrame(point) ==
    \E i \in ReadableFrames : ~IsColumn(frames[i]) /\ point \in EndsOf(frames[i])

OkRequests(requests) == SelectSeq(requests, LAMBDA r : r[2] = "ok")

SubjectsOf(requests) == [k \in 1..Len(requests) |-> requests[k][1]]

NoneRaised(requests) == \A k \in 1..Len(requests) : requests[k][2] # "raises"

RestraintsOnlyOnColumnBases ==
    /\ \A k \in 1..Len(restraint_requests) :
           /\ IsFreeColumnBase(restraint_requests[k][1])
           /\ ~OnHorizontalFrame(restraint_requests[k][1])
    /\ (rpc = "done" /\ restraint_result[2] = 0 /\ NoneRaised(restraint_requests)) =>
           restraint_result[1] = SubjectsOf(OkRequests(restraint_requests))

(* C17: when the host refuses the group no assignment is attempted and the  *)
(* call returns ([], 1); otherwise every frame of the input is submitted in *)
(* input order, whatever became of the frames before it, and the call       *)
(* returns the accepted ones in that order with status 0.                   *)
GroupAssignContract ==
    gpc = "done" =>
        /\ group_requests[1] # "ok" =>
               /\ assign_requests = <<>>
               /\ group_result = <<<<>>, 1>>
        /\ group_requests[1] = "ok" =>
               /\ SubjectsOf(assign_requests) = group_frames
               /\ group_result = <<SubjectsOf(OkRequests(assign_requests)), 0>>

(* C18: every step of a trace that arrives at vertex c from vertex p takes  *)
(* as next hop the neighbor stored right after the first entry for p in     *)
(* c's angle-sorted list, the first entry when that entry is the last.      *)
EntriesFor(list, p) == {i \in 1..Len(list) : list[i][1] = p}

EntryAfter(list, i) == IF i = Len(list) THEN list[1] ELSE list[i + 1]

NextHopFollowsBackEdge ==
    [][TraceStep =>
          LET c == next_v_candidate
              p == current_v
              around == sorted_neighbors[c]
          IN  EntriesFor(around, p) # {} =>
                  next_v_candidate' = EntryAfter(around, Min(EntriesFor(around, p)))[1]]_vars

NextHopWitness ==
    /\ pc = "trace"
    /\ Len(face_vertices) >= 2
    /\ LET c == current_v
           p == face_vertices[Len(face_vertices) - 1]
           around == sorted_neighbors[c]
       IN  /\ Cardinality(EntriesFor(around, p)) = 2
           /\ Max(EntriesFor(around, p)) = Len(around)
           /\ next_v_candidate = EntryAfter(around, Min(EntriesFor(around, p)))[1]
           /\ next_v_candidate # EntryAfter(around, Max(EntriesFor(around, p)))[1]

(* C19: every face handed to the filter has at least 3 entries and is a     *)
(* closed walk of the graph: consecutive entries, and the last entry with   *)
(* the first, are the two ends of a connector; and a face begins with the   *)
(* start vertex of the trace that returned it.                              *)
JoinedByConnector(a, b) ==
    \E i \in 1..Len(horizontal_beams) :
        EndKeys(horizontal_beams[i], tolerance) = {KeyOf(a), KeyOf(b)}

IsClosedWalk(face) ==
    /\ Len(face) >= 3
    /\ \A side \in FaceSides(face) : JoinedByConnector(side[1], side[2])

TracedFacesClosed == \A i \in 1..Len(all_faces) : IsClosedWalk(all_faces[i])

TracedFaceBeginsAtStart ==
    all_faces' # all_faces =>
        /\ all_faces' = Append(all_faces, trace_result')
        /\ trace_result'[1] = start_v

TracedFacesAreClosedWalks ==
    /\ []TracedFacesClosed
    /\ [][TraceStep => TracedFaceBeginsAtStart]_vars

ClosedWalkWitness ==
    /\ pc = "scan"
    /\ Len(all_faces) = 3
    /\ Len(all_faces[1]) = 3
    /\ trace_result = all_faces[3]
    /\ trace_result[1] = start_v
    /\ start_v # all_faces[1][1]

(* C20: no two returned faces have the same set of vertices, and a returned *)
(* face is the first of the traced faces that has its set of vertices.      *)
ReturnedFacesDistinct ==
    \A i \in 1..Len(faces) : \A j \in 1..Len(faces) :
        i # j => Range(faces[i]) # Range(faces[j])

IsFirstTracedOfItsSet(face) ==
    \E j \in 1..Len(all_faces) :
        /\ all_faces[j] = face
        /\ \A k \in 1..(j - 1) : Range(all_faces[k]) # Range(face)

OnlyFirstOfEqualSetsReturned ==
    pc \in {"create", "axes", "done"} =>
        /\ ReturnedFacesDistinct
        /\ \A i \in 1..Len(faces) : IsFirstTracedOfItsSet(faces[i])

FirstOfEqualSetsWitness ==
    /\ pc = "create"
    /\ Len(faces) = 4
    /\ \A i \in 1..4 :
           \E k \in 1..Len(all_faces) :
               /\ all_faces[k] # faces[i]
               /\ Len(all_faces[k]) = 4
               /\ Range(all_faces[k]) = Range(faces[i])

(* C21: every returned face has exactly 4 entries, and where the framing    *)
(* has two or more bounded regions no returned face is its outer perimeter. *)
(* Bounded regions of a connected planar framing: E - V + 1 (Euler) *)
RegionCount == Len(horizontal_beams) - vertex_count + 1

(* A loop through every vertex of the framing, simple, with a connector     *)
(* that is not one of its sides (a chord, which splits what it encloses)    *)
IsOuterPerimeter(face) ==
    /\ Cardinality(Range(face)) = Len(face)
    /\ Range(face) = 0..(vertex_count - 1)
    /\ \E a \in Range(face) : \E b \in Range(face) :
           /\ a # b
           /\ JoinedByConnector(a, b)
           /\ <<a, b>> \notin FaceSides(face)
           /\ <<b, a>> \notin FaceSides(face)

NoPerimeterNoOddPolygon ==
    pc \in {"create", "axes", "done"} =>
        /\ \A i \in 1..Len(faces) : Len(faces[i]) = 4
        /\ RegionCount >= 2 => \A i \in 1..Len(faces) : ~IsOuterPerimeter(faces[i])

(* C22: for every vertex the angle-sorted list holds the entries of the     *)
(* adjacency list, each as often as there and with its connector id, each   *)
(* with the planar angle of its edge, in non-decreasing order of angle,     *)
(* entries of equal angle in the order of the adjacency list.               *)
EdgeOf(entry) == <<entry[1], entry[2]>>

FirstPositionIn(list, e) == Min({k \in 1..Len(list) : list[k] = e})

IsStableAngleSort(v) ==
    LET around == sorted_neighbors[v]
        adj == adjacency_list[v]
    IN  /\ Len(around) = Len(adj)
        /\ \A k \in 1..Len(adj) :
               Cardinality({i \in 1..Len(around) : EdgeOf(around[i]) = adj[k]})
                   = CountOf(adj, adj[k])
        /\ \A i \in 1..Len(around) :
               around[i][3] = Atan2(KeyOf(around[i][1])[2] - KeyOf(v)[2],
                                    KeyOf(around[i][1])[1] - KeyOf(v)[1])
        /\ \A i \in 1..Len(around) : \A j \in (i + 1)..Len(around) :
               /\ ~AngleLess(around[j][3], around[i][3])
               /\ around[i][3] = around[j][3] =>
                      FirstPositionIn(adj, EdgeOf(around[i]))
                          <= FirstPositionIn(adj, EdgeOf(around[j]))

SortedNeighborsStable ==
    pc \in {"scan", "trace"} =>
        /\ DOMAIN sorted_neighbors = DOMAIN adjacency_list
        /\ \A v \in DOMAIN sorted_neighbors : IsStableAngleSort(v)

SortedNeighborsWitness ==
    /\ pc = "scan"
    /\ \E v \in DOMAIN sorted_neighbors :
           LET around == sorted_neighbors[v]
           IN  /\ Len(around) = 3
               /\ around[2][3] = around[3][3]
               /\ around[2][2] < around[3][2]
               /\ AngleLess(around[1][3], around[2][3])
               /\ EdgeOf(around[1]) = adjacency_list[v][3]

(* C23: when the call has returned normally, the last local-axis request    *)
(* for every area the host created carries the direction, in [0, 360), of   *)
(* the area's shortest edge in the XY plane, the first such edge in loop    *)
(* order when several are shortest.                                         *)
LoopCorner(loop, k) == loop[((k - 1) % Len(loop)) + 1]

(* Squared XY length of the edge from corner k to the corner after it *)
SideLengthSq(loop, k) ==
    LET dx == LoopCorner(loop, k + 1)[1] - LoopCorner(loop, k)[1]
        dy == LoopCorner(loop, k + 1)[2] - LoopCorner(loop, k)[2]
    IN  dx * dx + dy * dy

IsFirstShortestSide(loop, k) ==
    /\ \A m \in 1..(k - 1) : SideLengthSq(loop, m) > SideLengthSq(loop, k)
    /\ \A m \in (k + 1)..Len(loop) : SideLengthSq(loop, m) >= SideLengthSq(loop, k)

SideDirection(loop, k) ==
    LET a == Degrees(Atan2(LoopCorner(loop, k + 1)[2] - LoopCorner(loop, k)[2],
                           LoopCorner(loop, k + 1)[1] - LoopCorner(loop, k)[1]))
    IN  IF a < 0 THEN a + 360 ELSE a

LastAxisRequestOf(area_name) == axis_requests[Max(AxisRequestsOf(area_name))]

AxisAlongShortestEdge ==
    (pc = "done" /\ result[2] = 0) =>
        \A area_name \in DOMAIN host_areas :
            \E k \in 1..Len(host_areas[area_name]) :
                /\ IsFirstShortestSide(host_areas[area_name], k)
                /\ LastAxisRequestOf(area_name)[2] = SideDirection(host_areas[area_name], k)
                /\ LastAxisRequestOf(area_name)[2] \in 0..359

(* C24: with a degenerate connector added to the input the detector still   *)
(* returns normally, no trace runs beyond the cap, and every panel that was *)
(* requested for the input without it is requested again, compared by       *)
(* corner coordinates.                                                      *)
CornersOf(loop) == {<<loop[i][1], loop[i][2]>> : i \in 1..Len(loop)}

(* The panels of the first and of the second call, as the host received them *)
FirstCallPanels ==
    {CornersOf(create_requests[k]) : k \in 1..Len(calls[1].faces)}

SecondCallPanels ==
    {CornersOf(create_requests[k]) :
        k \in (Len(calls[1].faces) + 1)..Len(create_requests)}

BothCallsServed ==
    /\ pc = "done"
    /\ Len(calls) = 2
    /\ host_faults = 0
    /\ namelist_ret = 0

DegenerateConnectorKeepsPanels ==
    /\ iterations <= max_iterations
    /\ BothCallsServed =>
           /\ calls[2].result[2] = 0
           /\ FirstCallPanels \subseteq SecondCallPanels

(* C25: a trace that aborts leaves the collected faces as they are and the  *)
(* scan goes on with the starting half-edge that follows the aborted one;   *)
(* a trace that completes a face of 3 or more entries adds it to the        *)
(* collected faces, whatever happened to the traces before it.              *)
NextScanPosition ==
    IF scan_k < Len(sorted_neighbors[scan_v]) THEN <<scan_v, scan_k + 1>>
    ELSE <<scan_v + 1, 1>>

TraceAborts == TraceStep /\ pc' = "scan" /\ trace_result' = <<>>

TraceCompletes == TraceStep /\ pc' = "scan" /\ Len(trace_result') >= 3

AbortDiscardsOnlyItsTrace ==
    [][/\ TraceAborts =>
              /\ all_faces' = all_faces
              /\ <<scan_v', scan_k'>> = NextScanPosition
       /\ TraceCompletes => all_faces' = Append(all_faces, trace_result')]_vars

AbortWitness ==
    /\ pc = "scan"
    /\ trace_result = <<>>
    /\ iterations = max_iterations
    /\ Len(all_faces) >= 1
    /\ scan_v < vertex_count
    /\ <<scan_v, sorted_neighbors[scan_v][scan_k][1]>> \notin visited_half_edges

(* C26: when a trace returns a completed face, every half-edge of the       *)
(* closed walk, the closing one from the last entry to the start vertex     *)
(* included, is in the visited set.                                         *)
CompletedFaceFullyVisited ==
    [][TraceCompletes =>
          \A side \in FaceSides(trace_result') : side \in visited_half_edges']_vars

(* C27: at every step of every trace the vertex the trace comes from has an *)
(* entry in the neighbor list of the vertex it arrives at, and a trace      *)
(* aborts only when it has done max_iterations iterations.                  *)
BackEdgeNeverMissing ==
    [][/\ TraceStep => EntriesFor(sorted_neighbors[next_v_candidate], current_v) # {}
       /\ TraceAborts => iterations' = max_iterations]_vars

BackEdgeWitness ==
    /\ pc = "trace"
    /\ iterations >= 2
    /\ next_v_candidate = current_v
    /\ Len(sorted_neighbors[current_v]) >= 3
    /\ EntriesFor(sorted_neighbors[next_v_candidate], current_v) # {}

(* C28: when the filter runs, every traced face of 4 entries with 4         *)
(* distinct vertices has a returned face with the same vertex set: no       *)
(* quadrilateral is dropped because a face of another length over the same  *)
(* vertices was traced before it.                                           *)
IsProperQuadrilateral(face) == Len(face) = 4 /\ Cardinality(FaceSet(face)) = 4

QuadrilateralsRepresented ==
    [][FilterFaces =>
          \A i \in 1..Len(all_faces) :
              IsProperQuadrilateral(all_faces[i]) =>
                  \E j \in 1..Len(faces') : FaceSet(faces'[j]) = FaceSet(all_faces[i])]_vars

(* C29: when add_floor_areas has returned, the names in the returned list   *)
(* are exactly the names of the areas the host created during the call,     *)
(* whatever the returned status.                                            *)
ReturnedNames == {result[1][i] : i \in 1..Len(result[1])}

ReturnedExactlyTheCreatedAreas ==
    (pc = "done" /\ Len(calls) = 1) => ReturnedNames = DOMAIN host_areas

(* C30: with a second copy of one of its connectors added to the input, at  *)
(* any position and in either orientation, the call requests the same set   *)
(* of panels, compared by corner coordinates, as without it.                *)
HasDuplicateConnector ==
    \E i \in 1..Len(frames) : \E j \in 1..Len(frames) :
        /\ i # j
        /\ EndsOf(frames[i]) = EndsOf(frames[j])

DuplicateConnectorKeepsPanels ==
    (BothCallsServed /\ HasDuplicateConnector) => SecondCallPanels = FirstCallPanels

====
